---- MODULE Spec2Model ----
(***************************************************************************)
(* Model of redispattern/lockguard/lock_guard.go: LockGuard.Run and the    *)
(* goroutines it starts, for several LockGuard instances that contend for  *)
(* one key of one store.                                                   *)
(*                                                                         *)
(* Time is discrete; one unit is the heartbeat period (tickInterval, 6 s). *)
(* A lease of n units set at some instant is gone after n AdvanceTime      *)
(* steps.  A heartbeat goroutine that has a tick waiting on t.C handles it *)
(* before the next unit of time passes (renewal latency is below one       *)
(* period); every other step may be delayed arbitrarily.                   *)
(***************************************************************************)
EXTENDS Integers, Sequences, FiniteSets, TLC

\* ---------------------------------------------------------------- bounds
MaxRetry == 2
MaxLease == 2
MaxFaults == 1

\* ------------------------------------------------------ program constants
\* tickInterval(): 6 s, the unit of time of the model
TickInterval == 1
\* New: expiration 30 s = 5 heartbeat periods
DefaultExpiration == 5
\* New: retryTimes 1
DefaultRetryTimes == 1

Guards == {1, 2}
TheKey == "k"

\* ------------------------------------------------------------- variables
VARIABLES
    args,       \* the arguments of New: key, setters
    lock,       \* guard.lock: Key, Value, retryTimes, expiration, locked
    store,      \* the store's entry for TheKey: present, val, ttl
    pc,         \* position of the goroutine that calls New and executes Run
    i,          \* loop variable of Run
    ret,        \* err of Run (returned when pc = "done")
    hpc,        \* position of the goroutine that runs handler
    hres,       \* value that goroutine sends on errChan
    stop,       \* TRUE when the channel stop is closed
    bpc,        \* position of the heartbeat goroutine
    ticker,     \* t: active, left (units until the next tick)
    tickC,      \* TRUE when a tick is buffered in t.C
    ctx,        \* "live" or "cancelled"; until Run returns, "running" is
                \* the history of a cancellation that came while the handler
                \* was running and Run was in its select
    setnx,      \* history: number of SetNX commands issued
    tokens,     \* history: the values those SetNX commands carried
    sleeps,     \* history: number of time.Sleep calls
    released,   \* history: "no", or the reply to the Eval issued by unLock:
                \* "1", "0", or "err" (the command failed)
    lost,       \* history: the lease of the running Run expired in the store
    faults      \* number of failed store commands and rand.Read calls

vars == <<args, lock, store, pc, i, ret, hpc, hres, stop, bpc, ticker, tickC,
          ctx, setnx, tokens, sleeps, released, lost, faults>>

\* ------------------------------------------------------------ the store
NoEntry == [present |-> FALSE, val |-> <<>>, ttl |-> 0]

\* SetNX(key, value, expiration): sets the key only when it is absent
SetNXFlag(st) == ~st.present

SetNXStore(st, value, expiration) ==
    IF SetNXFlag(st)
    THEN [present |-> TRUE, val |-> value, ttl |-> expiration]
    ELSE st

\* Expire(key, expiration): resets the expiry of an existing key
ExpireStore(st, expiration) ==
    IF st.present THEN [st EXCEPT !.ttl = expiration] ELSE st

\* a script without the comparison (a plain DEL)
DelLuaScriptPlain(st, value) == NoEntry

\* delLuaScript: if get(KEYS[1]) == ARGV[1] then del(KEYS[1]) else 0
DelLuaScript(st, value) ==
    IF st.present /\ st.val = value THEN NoEntry ELSE st

\* the script's reply: the number of keys it deleted
ScriptReply(st, value) ==
    IF DelLuaScript(st, value) = st THEN "0" ELSE "1"

\* one unit of time passes at the store
AgeStore(st) ==
    IF st.present /\ st.ttl > 1 THEN [st EXCEPT !.ttl = st.ttl - 1] ELSE NoEntry

\* ------------------------------------------------------ token generator
TokenSpace == Cardinality(Guards) * MaxRetry

\* a source drawn once for a guard and used again by every attempt
RandReadOnce(g, n) == <<(g - 1) * MaxRetry>>

\* rand.Read(src): the n-th draw of guard g; draws are pairwise distinct
RandRead(g, n) == <<(g - 1) * MaxRetry + n>>

\* cipher.XORKeyStream(src, src) under the fixed key: a permutation of the
\* byte strings of one length
XORKeyStream(src) == [k \in 1..Len(src) |-> (src[k] + 3) % TokenSpace]

\* ------------------------------------------------------------------ New
WithRetryTimes(n) == [field |-> "retryTimes", value |-> n]
WithExpiration(e) == [field |-> "expiration", value |-> e]
\* a setter that returns an error
FailingSetter == [field |-> "error", value |-> 0]

SetterErr(s) == s.field = "error"

ApplySetter(l, s) ==
    IF s.field = "retryTimes" THEN [l EXCEPT !.retryTimes = s.value]
    ELSE [l EXCEPT !.expiration = s.value]

\* the zero Lock: no guard is returned (nil)
NilLock ==
    [Key |-> "", Value |-> <<>>, retryTimes |-> 0, expiration |-> 0,
     locked |-> FALSE]

\* for _, setter := range setters: the first error ends New
RECURSIVE ApplySetters(_, _)
ApplySetters(l, setters) ==
    IF setters = <<>> THEN [ok |-> TRUE, lock |-> l]
    ELSE IF SetterErr(Head(setters)) THEN [ok |-> FALSE, lock |-> NilLock]
    ELSE ApplySetters(ApplySetter(l, Head(setters)), Tail(setters))

\* a New that accepts every key
KeyRejectedNever(key) == FALSE

\* if key == "" { return nil, errors.New("key length is zero") }
KeyRejected(key) == key = ""

New(key, setters) ==
    IF KeyRejected(key)
    THEN [ok |-> FALSE, lock |-> NilLock]
    ELSE ApplySetters([Key |-> key, Value |-> <<>>,
                       retryTimes |-> DefaultRetryTimes,
                       expiration |-> DefaultExpiration,
                       locked |-> FALSE], setters)

\* the setter lists the guards of the model are constructed with
SetterLists ==
    {<<WithRetryTimes(n), WithExpiration(e)>> :
        n \in 1..MaxRetry, e \in 1..MaxLease}

\* ------------------------------------------------------- results of Run
NoErr == [kind |-> "none", of |-> "-"]

\* a Run that reports a failed store command as an error of its own
ErrStoreSurfaced(key) == [kind |-> "store", of |-> key]

\* fmt.Errorf("key: %s, err: %w", guard.lock.Key, errLockNotObtained)
ErrLockNotObtained(key) == [kind |-> "notObtained", of |-> key]

CtxErr == [kind |-> "ctx", of |-> "canceled"]
HandlerResults == {[kind |-> "nil", of |-> "-"], [kind |-> "err", of |-> "e"]}
ErrorPanics == {"perr"}
OtherPanics == {"pval"}

\* a recover branch that formats every value
PanicToErrFormatted(r) == [kind |-> "fmt", of |-> r]

\* the recover branch: fmt.Errorf("%w", r) for an error, "%+v" otherwise
PanicToErr(r) ==
    IF r \in ErrorPanics THEN [kind |-> "wrap", of |-> r]
    ELSE [kind |-> "fmt", of |-> r]

\* ----------------------------------------------------------------- Init
\* the guards are interchangeable: the configurations are taken in one order
ConfigOrder(l, m) ==
    \/ l.retryTimes < m.retryTimes
    \/ l.retryTimes = m.retryTimes /\ l.expiration <= m.expiration

\* everything but the guards: nothing is stored, nothing runs
Idle ==
    /\ store = NoEntry
    /\ i = [g \in Guards |-> 0]
    /\ ret = [g \in Guards |-> NoErr]
    /\ hpc = [g \in Guards |-> "none"]
    /\ hres = [g \in Guards |-> NoErr]
    /\ stop = [g \in Guards |-> FALSE]
    /\ bpc = [g \in Guards |-> "none"]
    /\ ticker = [g \in Guards |-> [active |-> FALSE, left |-> 0]]
    /\ tickC = [g \in Guards |-> FALSE]
    /\ ctx = [g \in Guards |-> "live"]
    /\ setnx = [g \in Guards |-> 0]
    /\ tokens = [g \in Guards |-> {}]
    /\ sleeps = [g \in Guards |-> 0]
    /\ released = [g \in Guards |-> "no"]
    /\ lost = [g \in Guards |-> FALSE]
    /\ faults = 0

\* the guards are constructed and Run is called on each
Init ==
    /\ args \in [Guards -> [key : {TheKey}, setters : SetterLists]]
    /\ lock = [g \in Guards |-> New(args[g].key, args[g].setters).lock]
    /\ \A g, h \in Guards : g < h => ConfigOrder(lock[g], lock[h])
    /\ pc = [g \in Guards |-> "loop"]
    /\ Idle

\* ------------------------------------------------------------------ Run
\* a reset that leaves the Value of the attempt before
ResetKeepsValue(l) == [l EXCEPT !.locked = FALSE]

\* guard.reset(): locked = false, Value = ""
Reset(l) == [l EXCEPT !.locked = FALSE, !.Value = <<>>]

\* an obtain that takes the lock whenever SetNX returned no error
ObtainLockedAlways(flag) == TRUE

\* obtain: guard.lock.locked = flag
ObtainLocked(flag) == flag

\* a Run that goes on to handler whatever obtain left in locked
ProceedsAlways(locked) == TRUE

\* if !guard.lock.locked { ...; continue }: Run goes on only when locked
Proceeds(locked) == locked

\* a loop that runs once more
LoopCondOffByOne(n, retryTimes) == n <= retryTimes

\* the loop condition of Run
LoopCond(n, retryTimes) == n < retryTimes

\* the condition under which a failed attempt sleeps before it continues
SleepCond(n, retryTimes) == retryTimes > 1

\* an unLock whose guard is inverted
UnLockIssuesInverted(locked) == ~locked

\* the guard of unLock: the release is issued only when locked
UnLockIssues(locked) == locked

\* a store command or rand.Read may fail while the fault budget lasts
MayFail == faults < MaxFaults

Outcome(ok) == IF ok THEN faults' = faults ELSE MayFail /\ faults' = faults + 1

\* a failed attempt: the backoff sleep when SleepCond, continue, and when the
\* loop condition fails return errLockNotObtained
AfterFailure(g) ==
    /\ sleeps' = [sleeps EXCEPT ![g] =
                    IF SleepCond(i[g], lock[g].retryTimes) THEN @ + 1 ELSE @]
    /\ i' = [i EXCEPT ![g] = i[g] + 1]
    /\ IF LoopCond(i[g] + 1, lock[g].retryTimes)
       THEN /\ pc' = [pc EXCEPT ![g] = "loop"]
            /\ ret' = ret
       ELSE /\ pc' = [pc EXCEPT ![g] = "done"]
            /\ ret' = [ret EXCEPT ![g] = ErrLockNotObtained(lock[g].Key)]

\* one iteration: reset, then obtain in which rand.Read fails
AttemptRandFails(g) ==
    /\ pc[g] = "loop"
    /\ Outcome(FALSE)
    /\ lock' = [lock EXCEPT ![g] = Reset(lock[g])]
    /\ AfterFailure(g)
    /\ UNCHANGED <<args, store, hpc, hres, stop, bpc, ticker, tickC, ctx,
                   setnx, tokens, released, lost>>

\* one iteration: reset, then obtain in which SetNX returns an error
AttemptStoreError(g) ==
    /\ pc[g] = "loop"
    /\ Outcome(FALSE)
    /\ lock' = [lock EXCEPT
                  ![g] = [Reset(lock[g]) EXCEPT
                            !.Value = XORKeyStream(RandRead(g, i[g]))]]
    /\ setnx' = [setnx EXCEPT ![g] = setnx[g] + 1]
    /\ tokens' = [tokens EXCEPT
                    ![g] = @ \cup {XORKeyStream(RandRead(g, i[g]))}]
    /\ AfterFailure(g)
    /\ UNCHANGED <<args, store, hpc, hres, stop, bpc, ticker, tickC, ctx,
                   released, lost>>

\* one iteration: reset, then obtain in which SetNX answers; on success the
\* ticker is created and the two goroutines are started
Attempt(g) ==
    /\ pc[g] = "loop"
    /\ LET value == XORKeyStream(RandRead(g, i[g]))
           flag == SetNXFlag(store)
       IN /\ store' = SetNXStore(store, value, lock[g].expiration)
          /\ lock' = [lock EXCEPT
                        ![g] = [Reset(lock[g]) EXCEPT
                                  !.Value = value,
                                  !.locked = ObtainLocked(flag)]]
          /\ setnx' = [setnx EXCEPT ![g] = setnx[g] + 1]
          /\ tokens' = [tokens EXCEPT ![g] = @ \cup {value}]
          /\ IF Proceeds(ObtainLocked(flag))
             THEN /\ pc' = [pc EXCEPT ![g] = "select"]
                  /\ ticker' = [ticker EXCEPT
                                  ![g] = [active |-> TRUE, left |-> TickInterval]]
                  /\ hpc' = [hpc EXCEPT ![g] = "running"]
                  /\ bpc' = [bpc EXCEPT ![g] = "select"]
                  /\ UNCHANGED <<i, ret, sleeps>>
             ELSE /\ AfterFailure(g)
                  /\ UNCHANGED <<ticker, hpc, bpc>>
    /\ UNCHANGED <<args, hres, stop, tickC, ctx, released, lost, faults>>

\* guard.unLock(): Eval(delLuaScript) when locked (ok = the store answered);
\* then t.Stop() and return err
UnLock(g, ok) ==
    /\ IF UnLockIssues(lock[g].locked)
       THEN /\ released' = [released EXCEPT ![g] =
                               IF ok THEN ScriptReply(store, lock[g].Value)
                               ELSE "err"]
            /\ store' = IF ok THEN DelLuaScript(store, lock[g].Value) ELSE store
            /\ Outcome(ok)
       ELSE /\ ok
            /\ UNCHANGED <<released, store, faults>>
    /\ ticker' = [ticker EXCEPT ![g].active = FALSE]
    /\ pc' = [pc EXCEPT ![g] = "done"]
    /\ lost' = [lost EXCEPT ![g] = FALSE]

\* a Run that returns the failure of its release
ReturnErrOfRelease(err, ok) ==
    IF ok THEN err ELSE [kind |-> "store", of |-> "eval"]

\* return err: the value the select assigned; unLock returns nothing
\* (ok = the store answered the release)
ReturnErr(err, ok) == err

\* a Run that waits for errChan alone
SelectCtxDoneIgnored(g, ok) == FALSE /\ UNCHANGED vars

\* a Run that also looks at ctx.Done() before an attempt
SelectCtxDoneInLoop(g, ok) ==
    /\ pc[g] \in {"loop", "select"}
    /\ ctx[g] # "live"
    /\ ret' = [ret EXCEPT ![g] = CtxErr]
    /\ UnLock(g, ok)
    /\ ctx' = [ctx EXCEPT ![g] = "cancelled"]
    /\ UNCHANGED <<args, lock, i, hpc, hres, stop, bpc, tickC, setnx, tokens,
                   sleeps>>

\* select: case <-ctx.Done(): err = ctx.Err(); then unLock, t.Stop, return
SelectCtxDone(g, ok) ==
    /\ pc[g] = "select"
    /\ ctx[g] # "live"
    /\ ret' = [ret EXCEPT ![g] = ReturnErr(CtxErr, ok)]
    /\ UnLock(g, ok)
    /\ ctx' = [ctx EXCEPT ![g] = "cancelled"]
    /\ UNCHANGED <<args, lock, i, hpc, hres, stop, bpc, tickC, setnx, tokens,
                   sleeps>>

\* select: case err = <-errChan, the rendezvous with the handler goroutine;
\* then unLock, t.Stop, return
SelectErrChan(g, ok) ==
    /\ pc[g] = "select"
    /\ hpc[g] \in {"send", "psend"}
    /\ ret' = [ret EXCEPT ![g] = ReturnErr(hres[g], ok)]
    /\ hres' = [hres EXCEPT ![g] = NoErr]
    /\ hpc' = [hpc EXCEPT ![g] = IF hpc[g] = "send" THEN "sent" ELSE "done"]
    /\ UnLock(g, ok)
    /\ ctx' = [ctx EXCEPT ![g] = IF @ = "running" THEN "cancelled" ELSE @]
    /\ UNCHANGED <<args, lock, i, stop, bpc, tickC, setnx, tokens, sleeps>>

\* ---------------------------------------------------- handler goroutine
\* handler(ctx) returns v: the goroutine blocks in errChan <- v
HandlerReturn(g, v) ==
    /\ hpc[g] = "running"
    /\ hpc' = [hpc EXCEPT ![g] = "send"]
    /\ hres' = [hres EXCEPT ![g] = v]
    /\ UNCHANGED <<args, lock, store, pc, i, ret, stop, bpc, ticker, tickC, ctx,
                   setnx, tokens, sleeps, released, lost, faults>>

\* handler(ctx) panics with r: recover, close(stop), then block in the send
HandlerPanic(g, r) ==
    /\ hpc[g] = "running"
    /\ stop' = [stop EXCEPT ![g] = TRUE]
    /\ hpc' = [hpc EXCEPT ![g] = "psend"]
    /\ hres' = [hres EXCEPT ![g] = PanicToErr(r)]
    /\ UNCHANGED <<args, lock, store, pc, i, ret, bpc, ticker, tickC, ctx,
                   setnx, tokens, sleeps, released, lost, faults>>

\* the deferred function after a completed send: close(stop)
HandlerCloseStop(g) ==
    /\ hpc[g] = "sent"
    /\ stop' = [stop EXCEPT ![g] = TRUE]
    /\ hpc' = [hpc EXCEPT ![g] = "done"]
    /\ UNCHANGED <<args, lock, store, pc, i, ret, hres, bpc, ticker, tickC, ctx,
                   setnx, tokens, sleeps, released, lost, faults>>

\* -------------------------------------------------- heartbeat goroutine
\* case <-t.C: guard.renewTTL(); ok = the store answered
HeartbeatRenew(g, ok) ==
    /\ bpc[g] = "select"
    /\ tickC[g]
    /\ tickC' = [tickC EXCEPT ![g] = FALSE]
    /\ store' = IF ok THEN ExpireStore(store, lock[g].expiration) ELSE store
    /\ Outcome(ok)
    /\ UNCHANGED <<args, lock, pc, i, ret, hpc, hres, stop, bpc, ticker, ctx,
                   setnx, tokens, sleeps, released, lost>>

\* case <-stop: return; a tick left in t.C is never received
HeartbeatStop(g) ==
    /\ bpc[g] = "select"
    /\ stop[g]
    /\ bpc' = [bpc EXCEPT ![g] = "exited"]
    /\ tickC' = [tickC EXCEPT ![g] = FALSE]
    /\ UNCHANGED <<args, lock, store, pc, i, ret, hpc, hres, stop, ticker, ctx,
                   setnx, tokens, sleeps, released, lost, faults>>

\* ------------------------------------------------------- the environment
\* the caller cancels ctx while Run executes; the history records whether
\* the handler was running and Run was waiting in its select
Cancel(g) ==
    /\ ctx[g] = "live"
    /\ pc[g] \in {"loop", "select"}
    /\ ctx' = [ctx EXCEPT ![g] =
                 IF pc[g] = "select" /\ hpc[g] = "running" THEN "running"
                 ELSE "cancelled"]
    /\ UNCHANGED <<args, lock, store, pc, i, ret, hpc, hres, stop, bpc, ticker,
                   tickC, setnx, tokens, sleeps, released, lost, faults>>

\* a waiting tick is handled before time moves on
RenewalPending == \E g \in Guards : bpc[g] = "select" /\ tickC[g]

TickerAfter(t) ==
    IF ~t.active THEN t
    ELSE IF t.left > 1 THEN [t EXCEPT !.left = t.left - 1]
    ELSE [t EXCEPT !.left = TickInterval]

TickerFires(t) == t.active /\ t.left <= 1

\* one unit of time passes: leases age, tickers count down and fire
AdvanceTime ==
    /\ ~RenewalPending
    /\ \E g \in Guards : ticker[g].active \/ store.present
    /\ store' = AgeStore(store)
    /\ lost' = [g \in Guards |->
                  lost[g] \/ (/\ pc[g] = "select"
                              /\ store.present /\ store.val = lock[g].Value
                              /\ ~AgeStore(store).present)]
    /\ ticker' = [g \in Guards |-> TickerAfter(ticker[g])]
    /\ tickC' = [g \in Guards |->
                   bpc[g] = "select" /\ (tickC[g] \/ TickerFires(ticker[g]))]
    /\ UNCHANGED <<args, lock, pc, i, ret, hpc, hres, stop, bpc, ctx,
                   setnx, tokens, sleeps, released, faults>>

\* ----------------------------------------------------------------- Next
Main(g) ==
    \/ AttemptRandFails(g)
    \/ AttemptStoreError(g)
    \/ Attempt(g)
    \/ \E ok \in BOOLEAN : SelectCtxDone(g, ok)
    \/ \E ok \in BOOLEAN : SelectErrChan(g, ok)

Handler(g) ==
    \/ \E v \in HandlerResults : HandlerReturn(g, v)
    \/ \E r \in ErrorPanics \cup OtherPanics : HandlerPanic(g, r)
    \/ HandlerCloseStop(g)

Heartbeat(g) ==
    \/ \E ok \in BOOLEAN : HeartbeatRenew(g, ok)
    \/ HeartbeatStop(g)

Next ==
    \/ \E g \in Guards : Main(g)
    \/ \E g \in Guards : Handler(g)
    \/ \E g \in Guards : Heartbeat(g)
    \/ \E g \in Guards : Cancel(g)
    \/ AdvanceTime

Spec == Init /\ [][Next]_vars

\* The Go scheduler runs every goroutine that can take a step, and a select
\* with a ready case is eventually taken; a select with several ready cases
\* does not starve one of them.  Nothing obliges handler to return, the
\* caller to cancel, or time to pass.
Fairness ==
    \A g \in Guards :
        /\ WF_vars(Main(g))
        /\ WF_vars(HandlerCloseStop(g))
        /\ WF_vars(\E ok \in BOOLEAN : HeartbeatRenew(g, ok))
        /\ WF_vars(HeartbeatStop(g))

\* the guards of the fair specification keep New's retryTimes
FairInit == Init /\ \A g \in Guards : lock[g].retryTimes = DefaultRetryTimes

FairSpec == FairInit /\ [][Next]_vars /\ Fairness

\* ------------------------------------------------------ New on its own
\* the setters a caller may pass, and the lists of at most two of them
Setters ==
    {WithRetryTimes(n) : n \in 1..MaxRetry}
        \cup {WithExpiration(e) : e \in 1..MaxLease} \cup {FailingSetter}

NewSetterLists ==
    {<<>>} \cup {<<s>> : s \in Setters} \cup {<<s, t>> : s, t \in Setters}

\* no guard exists yet; every caller has chosen its arguments
NewInit ==
    /\ args \in [Guards -> [key : {"", TheKey}, setters : NewSetterLists]]
    /\ lock = [g \in Guards |-> NilLock]
    /\ pc = [g \in Guards |-> "new"]
    /\ Idle

\* guard, err := New(redis, key, setters...)
Construct(g) ==
    /\ pc[g] = "new"
    /\ LET r == New(args[g].key, args[g].setters)
       IN /\ lock' = [lock EXCEPT ![g] = r.lock]
          /\ pc' = [pc EXCEPT ![g] = IF r.ok THEN "loop" ELSE "nil"]
    /\ UNCHANGED <<args, store, i, ret, hpc, hres, stop, bpc, ticker, tickC,
                   ctx, setnx, tokens, sleeps, released, lost, faults>>

NewNext == \E g \in Guards : Construct(g)

NewSpec == NewInit /\ [][NewNext]_vars

\* ================================================================ claims
Holding(g) == pc[g] = "select" /\ lock[g].locked
Returns(g) == pc[g] = "select" /\ pc'[g] = "done"
OwnsKey(g) == store.present /\ store.val = lock[g].Value

C2_ReleaseComparesValue ==
    [][\A g \in Guards :
          (Returns(g) /\ released'[g] # "no") =>
              IF released'[g] # "err" /\ OwnsKey(g)
              THEN store' = NoEntry /\ released'[g] = "1"
              ELSE store' = store /\ released'[g] # "1"]_vars

\* C2 witness: a guard's release was answered 0 and the key is held by the
\* other guard, which is still running.
C2_Witness ==
    \E g, h \in Guards :
        /\ g # h /\ pc[g] = "done" /\ released[g] = "0"
        /\ Holding(h) /\ OwnsKey(h)

\* C3: when Run has returned after it acquired the lock (locked = TRUE), the
\* release has been issued, whatever resolved the select.
C3_ReleaseBeforeReturn ==
    \A g \in Guards :
        (pc[g] = "done" /\ lock[g].locked) => released[g] # "no"

\* C3 witness: one Run returned the cancellation error and the other the
\* error of a panic, both after issuing the release.
C3_Witness ==
    \E g, h \in Guards :
        /\ pc[g] = "done" /\ ret[g] = CtxErr /\ released[g] # "no"
        /\ pc[h] = "done" /\ ret[h].kind = "wrap" /\ released[h] # "no"

\* C4 as stated: every Expire is issued while Run has neither issued its
\* release nor returned.
C4_NoRenewAfterRelease ==
    [][\A g \in Guards :
          (\E ok \in BOOLEAN : HeartbeatRenew(g, ok)) => pc[g] = "select"]_vars


HandlerFinished(g) == hpc[g] \in {"send", "psend", "sent", "done"}

\* C5 as stated: once handler has returned or panicked, the heartbeat
\* goroutine eventually terminates.
C5_HeartbeatTerminates ==
    \A g \in Guards : HandlerFinished(g) ~> (bpc[g] = "exited")

\* C6 as stated: a Run whose ctx was cancelled while handler was running
\* returns the cancellation error.
C6_CancelledReturnsCtxErr ==
    [][\A g \in Guards :
          (Returns(g) /\ ctx[g] = "running") => ret'[g] = CtxErr]_vars

\* C6 amended: a Run that waits in its select with ctx cancelled eventually
\* returns, whether or not handler ever returns; when ctx was cancelled while
\* handler was running, Run returns the cancellation error unless handler
\* had finished and its result was ready on errChan when the select was
\* taken.
C6_CancelledReturns ==
    /\ \A g \in Guards : (pc[g] = "select" /\ ctx[g] # "live") ~> (pc[g] = "done")
    /\ [][\A g \in Guards :
             (Returns(g) /\ ctx[g] = "running") =>
                 \/ ret'[g] = CtxErr
                 \/ hpc[g] \in {"send", "psend"} /\ ret'[g] = hres[g]]_vars

\* C6 witness: Run has returned the cancellation error while handler is
\* still running.
C6_Witness ==
    \E g \in Guards :
        pc[g] = "done" /\ ret[g] = CtxErr /\ hpc[g] = "running"

C8_AttemptsBounded ==
    \A g \in Guards :
        /\ setnx[g] <= lock[g].retryTimes
        /\ i[g] <= lock[g].retryTimes
        /\ setnx[g] <= i[g] + 1
        /\ lock[g].locked => (pc[g] # "loop" /\ i[g] < lock[g].retryTimes)
        /\ (pc[g] = "done" /\ ret[g].kind = "notObtained") =>
               /\ i[g] = lock[g].retryTimes
               /\ ~lock[g].locked /\ hpc[g] = "none" /\ released[g] = "no"
        /\ (pc[g] = "done" /\ ret[g].kind # "notObtained") => lock[g].locked

\* C8 witness: a Run with the largest retryTimes returned errLockNotObtained
\* after that many refused SetNX commands, the key being held by the other
\* guard.
C8_Witness ==
    \E g, h \in Guards :
        /\ g # h /\ pc[g] = "done" /\ ret[g].kind = "notObtained"
        /\ lock[g].retryTimes = MaxRetry /\ setnx[g] = MaxRetry
        /\ Holding(h) /\ OwnsKey(h) /\ faults = 0

\* C9 as stated: a Run whose attempts all failed has slept retryTimes - 1
\* times.
C9_SleepsBetweenAttempts ==
    \A g \in Guards :
        (pc[g] = "done" /\ ret[g].kind = "notObtained") =>
            sleeps[g] = lock[g].retryTimes - 1

\* C10 as stated: while handler runs and Run waits, with a lease longer than
\* the heartbeat period and no failed store command, the key is present with
\* the guard's Value.
C10_RenewalKeepsKey ==
    \A g \in Guards :
        (/\ Holding(g) /\ hpc[g] = "running" /\ ctx[g] = "live"
         /\ lock[g].expiration > TickInterval /\ faults = 0) => OwnsKey(g)

\* an attempt of guard g in which rand.Read or SetNX failed
FaultyAttempt(g) == pc[g] = "loop" /\ i'[g] # i[g] /\ faults' # faults

\* C11: an attempt in which rand.Read fails or SetNX returns an error is
\* handled as a refused one: locked stays FALSE, the store is untouched,
\* handler and the heartbeat are not started, the attempt is counted, and
\* when it was the last attempt Run returns errLockNotObtained; a Run that
\* never started handler returns nothing but errLockNotObtained.
C11_FaultyAttemptNotObtained ==
    /\ [][\A g \in Guards :
             FaultyAttempt(g) =>
                 /\ ~lock'[g].locked /\ store' = store
                 /\ hpc'[g] = "none" /\ bpc'[g] = "none" /\ ~ticker'[g].active
                 /\ i'[g] = i[g] + 1
                 /\ IF i[g] + 1 < lock[g].retryTimes
                    THEN pc'[g] = "loop" /\ ret'[g] = NoErr
                    ELSE /\ pc'[g] = "done"
                         /\ ret'[g] = [kind |-> "notObtained",
                                       of |-> lock[g].Key]]_vars
    /\ [](\A g \in Guards :
             (pc[g] = "done" /\ hpc[g] = "none") =>
                 ret[g] = [kind |-> "notObtained", of |-> lock[g].Key])

\* C11 witness: a Run with retryTimes 1 returned errLockNotObtained although
\* the key is free and the other guard has made no attempt: its one attempt
\* failed in SetNX.
C11_Witness ==
    \E g, h \in Guards :
        /\ g # h /\ pc[g] = "done" /\ ret[g].kind = "notObtained"
        /\ lock[g].retryTimes = 1 /\ setnx[g] = 1 /\ faults = 1
        /\ ~store.present /\ pc[h] = "loop" /\ i[h] = 0

\* C12: a Run returns one value and keeps it; after an acquisition that
\* value is ctx.Err() only when ctx was cancelled, and otherwise the value
\* the handler goroutine sent, which exists only when handler has returned
\* or panicked; it is the same whether the release and the renewals were
\* answered or failed.
C12_OneOutcome ==
    /\ [](\A g \in Guards : pc[g] # "done" => ret[g] = NoErr)
    /\ [][\A g \in Guards :
             /\ pc[g] = "done" => (pc'[g] = "done" /\ ret'[g] = ret[g])
             /\ Returns(g) =>
                   IF ret'[g] = CtxErr
                   THEN ctx[g] # "live"
                   ELSE /\ hpc[g] \in {"send", "psend"}
                        /\ ret'[g] = hres[g]
                        /\ ret'[g] \in HandlerResults \cup
                               {PanicToErr(r) : r \in ErrorPanics \cup OtherPanics}]_vars

\* C12 witness: a Run returned handler's nil although its release failed in
\* the store, with ctx never cancelled.
C12_Witness ==
    \E g \in Guards :
        /\ pc[g] = "done" /\ ret[g].kind = "nil"
        /\ released[g] = "err" /\ ctx[g] = "live"

\* C13 as stated: once a guard's release has been issued, and after its Run
\* has returned, locked is FALSE.
C13_NotLockedAfterRelease ==
    \A g \in Guards :
        (pc[g] = "done" \/ released[g] # "no") => ~lock[g].locked

\* C14: every SetNX command carries a Value made for that attempt: it is not
\* empty, it is not the Value the guard had before the attempt, it is none
\* of the Values any earlier SetNX command of any guard carried, and it is
\* not the value the store holds; so a Run that issued n commands used n
\* different Values.
C14_TokenNeverReused ==
    /\ [][\A g \in Guards :
             setnx'[g] # setnx[g] =>
                 /\ lock'[g].Value # <<>>
                 /\ lock'[g].Value # lock[g].Value
                 /\ \A h \in Guards : lock'[g].Value \notin tokens[h]
                 /\ store.present => lock'[g].Value # store.val
                 /\ tokens'[g] = tokens[g] \cup {lock'[g].Value}]_vars
    /\ [](\A g \in Guards : Cardinality(tokens[g]) = setnx[g])

\* C14 witness: a Run has issued MaxRetry SetNX commands with as many Values,
\* and the other Run has issued one.
C14_Witness ==
    \E g, h \in Guards :
        /\ g # h /\ setnx[g] = MaxRetry /\ Cardinality(tokens[g]) = MaxRetry
        /\ setnx[h] >= 1 /\ lock[g].Value \in tokens[g]

HasFailingSetter(g) ==
    \E k \in 1..Len(args[g].setters) : args[g].setters[k].field = "error"

\* C15: New with an empty key fails and returns no guard; New with a key
\* that is not empty and no setter succeeds, with retryTimes 1, expiration
\* 30 s (5 heartbeat periods), the key, an empty Value and locked = FALSE;
\* New fails and returns no guard when one of its setters returns an error.
C15_NewContract ==
    \A g \in Guards :
        pc[g] # "new" =>
            /\ args[g].key = "" => (pc[g] = "nil" /\ lock[g] = NilLock)
            /\ (args[g].key # "" /\ args[g].setters = <<>>) =>
                   /\ pc[g] = "loop"
                   /\ lock[g] = [Key |-> args[g].key, Value |-> <<>>,
                                 retryTimes |-> 1, expiration |-> 5,
                                 locked |-> FALSE]
            /\ HasFailingSetter(g) => (pc[g] = "nil" /\ lock[g] = NilLock)

\* C15 witness: one New was given the key and no setter and returned a
\* guard; the other was given the key and a failing setter after a valid
\* one and returned none.
C15_Witness ==
    \E g, h \in Guards :
        /\ pc[g] = "loop" /\ args[g].key = TheKey /\ args[g].setters = <<>>
        /\ pc[h] = "nil" /\ args[h].key = TheKey
        /\ Len(args[h].setters) = 2 /\ args[h].setters[2] = FailingSetter
        /\ args[h].setters[1] # FailingSetter

\* C16: locked changes to TRUE only in an attempt whose SetNX the store
\* answered with success (the key was absent and now holds the attempt's
\* Value with the guard's expiration); between attempts locked is FALSE;
\* and an attempt that ends before its SetNX is issued leaves locked FALSE
\* and Value empty, as reset made them at the start of the attempt.
C16_LockedOnlyBySetNX ==
    /\ [](\A g \in Guards : pc[g] \in {"new", "nil", "loop"} => ~lock[g].locked)
    /\ [][\A g \in Guards :
             /\ (lock'[g].locked /\ ~lock[g].locked) =>
                    /\ pc[g] = "loop" /\ setnx'[g] = setnx[g] + 1
                    /\ faults' = faults /\ ~store.present
                    /\ store' = [present |-> TRUE, val |-> lock'[g].Value,
                                 ttl |-> lock[g].expiration]
             /\ (pc[g] = "loop" /\ i'[g] # i[g] /\ setnx'[g] = setnx[g]) =>
                    (~lock'[g].locked /\ lock'[g].Value = <<>>)]_vars

\* C16 witness: a guard whose first SetNX was refused has abandoned its
\* second attempt in rand.Read: its Value is empty again, and the other
\* guard holds the key.
C16_Witness ==
    \E g, h \in Guards :
        /\ g # h /\ i[g] = 2 /\ setnx[g] = 1 /\ tokens[g] # {}
        /\ lock[g].Value = <<>> /\ ~lock[g].locked
        /\ Holding(h) /\ OwnsKey(h)

\* a step of Run's loop for guard g
LoopStep(g) == pc[g] = "loop" /\ (i'[g] # i[g] \/ pc'[g] # pc[g])

\* C17: the acquisition loop does not look at ctx.  With ctx cancelled an
\* attempt can still be made; a refused or failed attempt is counted and
\* retried as usual and after the last one Run returns errLockNotObtained;
\* a successful attempt writes the key and starts handler and the
\* heartbeat.  Run returns ctx.Err() only after it acquired the lock and
\* started handler.
C17_LoopIgnoresCancel ==
    /\ [](\A g \in Guards :
             /\ pc[g] = "loop" => ENABLED Attempt(g)
             /\ (pc[g] = "done" /\ ret[g] = CtxErr) =>
                    (lock[g].locked /\ hpc[g] # "none" /\ setnx[g] >= 1))
    /\ [][\A g \in Guards :
             (LoopStep(g) /\ ctx[g] # "live") =>
                 IF lock'[g].locked
                 THEN /\ pc'[g] = "select" /\ hpc'[g] = "running"
                      /\ bpc'[g] = "select" /\ ret'[g] = NoErr
                      /\ store'.present /\ store'.val = lock'[g].Value
                 ELSE /\ i'[g] = i[g] + 1
                      /\ IF i'[g] < lock[g].retryTimes
                         THEN pc'[g] = "loop" /\ ret'[g] = NoErr
                         ELSE /\ pc'[g] = "done"
                              /\ ret'[g].kind = "notObtained"]_vars

\* C17 witness: one Run, cancelled before it acquired, holds the key with
\* handler running; the other, cancelled too, has returned
\* errLockNotObtained.
C17_Witness ==
    \E g, h \in Guards :
        /\ g # h /\ Holding(g) /\ OwnsKey(g)
        /\ hpc[g] = "running" /\ ctx[g] = "cancelled"
        /\ pc[h] = "done" /\ ret[h].kind = "notObtained"
        /\ ctx[h] = "cancelled"

C19_RenewsOwnKeyOnly ==
    [][\A g \in Guards :
          (HeartbeatRenew(g, TRUE) /\ store.present) =>
              store.val = lock[g].Value]_vars

Running(g) == hpc[g] = "running"

\* C20: when no store command and no rand.Read has failed and no ctx is
\* cancelled, two guards' handlers are running at the same time only if the
\* lease of one of them has expired in the store since it acquired the key.
C20_HandlersExclusive ==
    \A g, h \in Guards :
        (/\ g # h /\ Running(g) /\ Running(h)
         /\ faults = 0 /\ \A k \in Guards : ctx[k] = "live")
            => (lost[g] \/ lost[h])

\* C20 witness: with no fault and no cancellation, a guard that was refused
\* while the other's handler ran has acquired after the other released, and
\* its handler runs with its lease intact.
C20_Witness ==
    \E g, h \in Guards :
        /\ g # h /\ faults = 0 /\ \A k \in Guards : ctx[k] = "live"
        /\ pc[g] = "done" /\ released[g] = "1" /\ ~Running(g)
        /\ Running(h) /\ ~lost[h] /\ OwnsKey(h) /\ setnx[h] = 2

====
